---- MODULE Spec2Model ----
(***************************************************************************)
(* Model of streamlit_app.py: the bulk PDF -> text converter.              *)
(*                                                                         *)
(* One script run is modelled: the sidebar inputs and the uploaded files   *)
(* are fixed by Init, the main thread walks through the script (submit     *)
(* loop, as_completed loop, summary, single/bulk view) and the pool's      *)
(* worker threads start and finish process_single_file tasks in between.   *)
(*                                                                         *)
(* Text is a sequence of characters, bytes are a sequence of integers,     *)
(* file names are sequences of path tokens ("." and "/" are themselves,    *)
(* every other token is a run of ordinary letters).                        *)
(***************************************************************************)
EXTENDS Integers, Sequences, FiniteSets, Bags, TLC

VARIABLES
    workers,        \* sidebar number_input "Parallel workers (bulk)"
    uploaded,       \* st.file_uploader(...): sequence of uploaded file objects
    pc,             \* position of the main thread in the script
    total_files,    \* len(uploaded)
    future_to_name, \* dict future -> f.name; future i is the i-th submitted
    fut,            \* state and outcome of every future
    yielded,        \* futures as_completed has already yielded
    results,        \* list of (filename, text_bytes, method)
    errors,         \* list of (name, str(e))
    done_count,     \* completed-task counter
    progress,       \* value shown by progress_bar, as <<numerator, denominator>>
    view,           \* which view the script rendered
    downloads,      \* the download buttons rendered: [key, file_name, data]
    zip_arg,        \* argument of the latest make_zip_in_memory call
    zipped          \* value returned by the latest make_zip_in_memory call

vars == <<workers, uploaded, pc, total_files, future_to_name, fut, yielded,
          results, errors, done_count, progress, view, downloads, zip_arg, zipped>>

-----------------------------------------------------------------------------
(* Bounds of the model *)

MaxFiles == 3
MaxTextLen == 2
MaxNameLen == 3

(* Program constants *)

MinWorkers == 1
MaxWorkers == 16

OutSingleOptions == {"Preview & Download .txt", "Direct .txt Download"}

-----------------------------------------------------------------------------
(* Generic helpers *)

Range(s) == {s[i] : i \in 1..Len(s)}

SeqsUpTo(S, n) == UNION {[1..k -> S] : k \in 0..n}

RECURSIVE BagOfSeq(_)
BagOfSeq(s) ==
    IF s = <<>> THEN EmptyBag
    ELSE BagOfSeq(Tail(s)) (+) SetToBag({Head(s)})

\* largest index i of p with p[i] = c, 0 when there is none (str.rfind, 1-based)
rfind(p, c) ==
    LET hits == {i \in 1..Len(p) : p[i] = c}
    IN IF hits = {} THEN 0 ELSE CHOOSE i \in hits : \A j \in hits : j <= i

-----------------------------------------------------------------------------
(* Text: characters, str.strip, str.encode("utf-8", errors="ignore") *)

\* a space, a printable ASCII letter, a no-break space (Unicode whitespace,
\* two bytes in UTF-8) and a lone surrogate (not encodable in UTF-8)
Chars == {"sp", "x", "nbsp", "surr"}

isspace(c) == c \in {"sp", "nbsp"}

RECURSIVE lstrip(_)
lstrip(txt) ==
    IF txt = <<>> THEN <<>>
    ELSE IF isspace(Head(txt)) THEN lstrip(Tail(txt))
    ELSE txt

RECURSIVE rstrip(_)
rstrip(txt) ==
    IF txt = <<>> THEN <<>>
    ELSE IF isspace(txt[Len(txt)]) THEN rstrip(SubSeq(txt, 1, Len(txt) - 1))
    ELSE txt

strip(txt) == rstrip(lstrip(txt))

encode_char(c) ==
    CASE c = "sp"   -> <<32>>
      [] c = "x"    -> <<120>>
      [] c = "nbsp" -> <<194, 160>>
      [] c = "surr" -> <<>>

RECURSIVE encode_utf8_ignore(_)
encode_utf8_ignore(txt) ==
    IF txt = <<>> THEN <<>>
    ELSE encode_char(Head(txt)) \o encode_utf8_ignore(Tail(txt))

-----------------------------------------------------------------------------
(* Outcomes of calls: a returned value or a raised exception *)

Return(v) == [raised |-> FALSE, exc |-> "", val |-> v]
Raise(msg) == [raised |-> TRUE, exc |-> msg, val |-> <<>>]

(* The uploaded PDFs.  What file_obj.read() and the pdfminer library do    *)
(* with a file is a function of the file alone:                            *)
(*   unreadable : read() raises                                            *)
(*   corrupt    : extract_text raises                                      *)
(*   none       : extract_text returns None                                *)
(*   text       : extract_text returns the string txt                      *)
Unreadable == [kind |-> "unreadable", txt |-> <<>>]
Corrupt == [kind |-> "corrupt", txt |-> <<>>]
NoneText == [kind |-> "none", txt |-> <<>>]
Digital(txt) == [kind |-> "text", txt |-> txt]

read(file_obj) ==
    IF file_obj.pdf.kind = "unreadable"
    THEN Raise("read failed")
    ELSE Return(file_obj.pdf)

\* pdfminer.high_level.extract_text on the temporary copy of pdf_bytes
extract_text(pdf_bytes) ==
    CASE pdf_bytes.kind = "corrupt" -> [raised |-> TRUE, none |-> FALSE, txt |-> <<>>]
      [] pdf_bytes.kind = "none"    -> [raised |-> FALSE, none |-> TRUE, txt |-> <<>>]
      [] OTHER                      -> [raised |-> FALSE, none |-> FALSE, txt |-> pdf_bytes.txt]

\* the function without its try/except: the library's exception propagates
extract_text_pdfminer_unguarded(pdf_bytes) ==
    LET r == extract_text(pdf_bytes)
    IN IF r.raised THEN Raise("PDFSyntaxError")
       ELSE Return(IF r.none \/ r.txt = <<>> THEN <<>> ELSE r.txt)

extract_text_pdfminer(pdf_bytes) ==
    LET r == extract_text(pdf_bytes)
    IN IF r.raised THEN Return(<<>>)                               \* except Exception: return ""
       ELSE Return(IF r.none \/ r.txt = <<>> THEN <<>> ELSE r.txt) \* return txt or ""

\* the label computed without strip(): whitespace-only text counts as text
method_of_unstripped(txt) == IF txt # <<>> THEN "pdfminer" ELSE "failed"

method_of(txt) == IF strip(txt) # <<>> THEN "pdfminer" ELSE "failed"

process_single_file(file_obj) ==
    LET filename == file_obj.name
        rd == read(file_obj)
    IN IF rd.raised THEN Raise(rd.exc)
       ELSE LET ex == extract_text_pdfminer(rd.val)
            IN IF ex.raised THEN Raise(ex.exc)
               ELSE Return(<<filename, method_of(ex.val), encode_utf8_ignore(ex.val)>>)

-----------------------------------------------------------------------------
(* File names: os.path.splitext and make_zip_in_memory *)

PathChars == {"a", ".", "/"}

DotTxt == <<".", "txt">>

splitext(p) ==
    LET sepIndex == rfind(p, "/")
        dotIndex == rfind(p, ".")
    IN IF /\ dotIndex > sepIndex
          /\ \E k \in (sepIndex + 1)..(dotIndex - 1) : p[k] # "."
       THEN <<SubSeq(p, 1, dotIndex - 1), SubSeq(p, dotIndex, Len(p))>>
       ELSE <<p, <<>> >>

\* the output name taken from the whole original name
txt_name_keep_ext(orig_name) == orig_name \o DotTxt

txt_name_of(orig_name) == splitext(orig_name)[1] \o DotTxt

\* z.writestr(txt_name, data) for every pair, in order
RECURSIVE make_zip_in_memory(_)
make_zip_in_memory(pairs) ==
    IF pairs = <<>> THEN <<>>
    ELSE <<[name |-> txt_name_of(Head(pairs)[1]), data |-> Head(pairs)[2]]>>
         \o make_zip_in_memory(Tail(pairs))

widget_key(fn) == <<"dl_">> \o fn

-----------------------------------------------------------------------------
(* The thread pool *)

Futures == 1..Len(future_to_name)

Pending == {i \in Futures : fut[i].state = "PENDING"}
Running == {i \in Futures : fut[i].state = "RUNNING"}
Finished == {i \in Futures : fut[i].state = "FINISHED"}

NewFuture == [state |-> "NEW", outcome |-> Return(<<>>)]

\* a pool that lets every queued task run at once
CanStartUnbounded(i) == i \in Pending

\* a pool that keeps one worker in reserve
CanStartOffByOne(i) ==
    /\ i \in Pending
    /\ \A j \in Pending : i <= j
    /\ Cardinality(Running) < workers - 1

\* ThreadPoolExecutor(max_workers=int(workers)): a free worker takes the
\* oldest queued work item
CanStart(i) ==
    /\ i \in Pending
    /\ \A j \in Pending : i <= j
    /\ Cardinality(Running) < workers

\* the argument bound late: every task reads the loop variable f
TaskArgLate(i) == uploaded[Len(future_to_name)]

\* executor.submit(process_single_file, f): the task's own file
TaskArg(i) == uploaded[i]

StartTask(i) ==
    /\ CanStart(i)
    /\ fut' = [fut EXCEPT ![i].state = "RUNNING"]
    /\ UNCHANGED <<workers, uploaded, pc, total_files, future_to_name, yielded,
                   results, errors, done_count, progress, view, downloads,
                   zip_arg, zipped>>

FinishTask(i) ==
    /\ i \in Running
    /\ fut' = [fut EXCEPT ![i] = [state |-> "FINISHED",
                                  outcome |-> process_single_file(TaskArg(i))]]
    /\ UNCHANGED <<workers, uploaded, pc, total_files, future_to_name, yielded,
                   results, errors, done_count, progress, view, downloads,
                   zip_arg, zipped>>

-----------------------------------------------------------------------------
(* The main thread *)

\* lines 86-101: stop without uploads, else set up the processing area
Begin ==
    /\ pc = "start"
    /\ IF Len(uploaded) = 0
       THEN /\ pc' = "stopped"
            /\ UNCHANGED total_files
       ELSE /\ pc' = "submit"
            /\ total_files' = Len(uploaded)
    /\ UNCHANGED <<workers, uploaded, future_to_name, fut, yielded, results,
                   errors, done_count, progress, view, downloads, zip_arg, zipped>>

\* lines 106-108: one iteration of the submit loop
Submit ==
    /\ pc = "submit"
    /\ Len(future_to_name) < Len(uploaded)
    /\ LET i == Len(future_to_name) + 1
       IN /\ fut' = [fut EXCEPT ![i].state = "PENDING"]
          /\ future_to_name' = Append(future_to_name, uploaded[i].name)
    /\ UNCHANGED <<workers, uploaded, pc, total_files, yielded, results, errors,
                   done_count, progress, view, downloads, zip_arg, zipped>>

\* line 110: the submit loop is over
StartCollect ==
    /\ pc = "submit"
    /\ Len(future_to_name) = Len(uploaded)
    /\ pc' = "collect"
    /\ done_count' = 0
    /\ UNCHANGED <<workers, uploaded, total_files, future_to_name, fut, yielded,
                   results, errors, progress, view, downloads, zip_arg, zipped>>

\* the entry recorded under the name of the first submitted future
ErrorEntryFirstName(i) == <<future_to_name[1], fut[i].outcome.exc>>

\* line 118: (name, str(e)) with name = future_to_name[future]
ErrorEntry(i) == <<future_to_name[i], fut[i].outcome.exc>>

\* a counter that only counts the tasks that returned
DoneCountAfterSuccessOnly(i) ==
    IF fut[i].outcome.raised THEN done_count ELSE done_count + 1

\* line 120
DoneCountAfter(i) == done_count + 1

\* lines 111-121: one iteration of the as_completed loop on future i
Collect(i) ==
    /\ pc = "collect"
    /\ i \in Finished \ yielded
    /\ yielded' = yielded \cup {i}
    /\ IF ~fut[i].outcome.raised
       THEN LET r == fut[i].outcome.val
            IN /\ results' = Append(results, <<r[1], r[3], r[2]>>)
               /\ UNCHANGED errors
       ELSE /\ errors' = Append(errors, ErrorEntry(i))
            /\ UNCHANGED results
    /\ done_count' = DoneCountAfter(i)
    /\ progress' = <<done_count', total_files>>
    /\ UNCHANGED <<workers, uploaded, pc, total_files, future_to_name, fut, view,
                   downloads, zip_arg, zipped>>

\* as_completed is exhausted and the with block ends; lines 124-128
Summary ==
    /\ pc = "collect"
    /\ yielded = Futures
    /\ pc' = "summary"
    /\ UNCHANGED <<workers, uploaded, total_files, future_to_name, fut, yielded,
                   results, errors, done_count, progress, view, downloads,
                   zip_arg, zipped>>

\* lines 131-149
SingleView(out_single) ==
    /\ pc = "summary"
    /\ Len(results) = 1
    /\ LET name == results[1][1]
           data == results[1][2]
       IN /\ view' = IF out_single = "Preview & Download .txt"
                     THEN "single_preview" ELSE "single_direct"
          /\ downloads' = <<[key |-> <<>>, file_name |-> splitext(name)[1] \o DotTxt,
                             data |-> data]>>
    /\ pc' = "done"
    /\ UNCHANGED <<workers, uploaded, total_files, future_to_name, fut, yielded,
                   results, errors, done_count, progress, zip_arg, zipped>>

\* lines 150-165
BulkView ==
    /\ pc = "summary"
    /\ Len(results) # 1
    /\ view' = "bulk"
    /\ zip_arg' = [k \in 1..Len(results) |-> <<results[k][1], results[k][2]>>]
    /\ zipped' = make_zip_in_memory(zip_arg')
    /\ downloads' = [k \in 1..Len(results) |->
                        [key |-> widget_key(results[k][1]),
                         file_name |-> splitext(results[k][1])[1] \o DotTxt,
                         data |-> results[k][2]]]
    /\ pc' = "done"
    /\ UNCHANGED <<workers, uploaded, total_files, future_to_name, fut, yielded,
                   results, errors, done_count, progress>>

-----------------------------------------------------------------------------
(* Specifications *)

NameA == <<"a", ".", "pdf">>
NameB == <<"b", ".", "pdf">>

UploadNames == {NameA, NameB}

FileObjs(names, pdfs) == [name : names, pdf : pdfs]

InitWith(files, counts, ws) ==
    /\ workers \in ws
    /\ \E n \in counts : uploaded \in [1..n -> files]
    /\ pc = "start"
    /\ total_files = 0
    /\ future_to_name = <<>>
    /\ fut = [i \in 1..Len(uploaded) |-> NewFuture]
    /\ yielded = {}
    /\ results = <<>>
    /\ errors = <<>>
    /\ done_count = 0
    /\ progress = <<0, 1>>
    /\ view = "none"
    /\ downloads = <<>>
    /\ zip_arg = <<>>
    /\ zipped = <<>>

\* the pipeline over files that are read or not
Init ==
    InitWith(FileObjs(UploadNames, {Unreadable, Digital(<<"x">>)}),
             0..MaxFiles, MinWorkers..MaxWorkers)

Workers == \E i \in 1..Len(uploaded) : StartTask(i) \/ FinishTask(i)

Main ==
    \/ Begin
    \/ Submit
    \/ StartCollect
    \/ \E i \in 1..Len(uploaded) : Collect(i)
    \/ Summary
    \/ \E o \in OutSingleOptions : SingleView(o)
    \/ BulkView

Next == Main \/ Workers

Spec == Init /\ [][Next]_vars

\* the processing of one uploaded file at a time, over every extracted text
\* of at most MaxTextLen characters
TextPdfs ==
    {Unreadable, Corrupt, NoneText} \cup {Digital(t) : t \in SeqsUpTo(Chars, MaxTextLen)}

InitText ==
    /\ InitWith(FileObjs(UploadNames, TextPdfs), 1..2, {MinWorkers, MaxWorkers})
    /\ \A i \in 1..Len(uploaded) : uploaded[i].name = IF i = 1 THEN NameA ELSE NameB

TextSpec == InitText /\ [][Next]_vars

\* the pipeline under fair scheduling: the main thread keeps running its
\* script, and the pool's workers keep taking queued tasks and every task
\* they run returns or raises
InitFair ==
    InitWith(FileObjs({NameA}, {Unreadable, Digital(<<"x">>)}),
             0..MaxFiles, MinWorkers..MaxWorkers)

FairSpec == InitFair /\ [][Next]_vars /\ WF_vars(Main) /\ WF_vars(Workers)

\* make_zip_in_memory on its own, over every list of at most two pairs whose
\* names have at most MaxNameLen path tokens
PathNames == SeqsUpTo(PathChars, MaxNameLen)

ZipData == {<<>>, <<120>>}

ZipInit ==
    /\ workers = MinWorkers
    /\ uploaded = <<>>
    /\ pc = "zip_call"
    /\ total_files = 0
    /\ future_to_name = <<>>
    /\ fut = <<>>
    /\ yielded = {}
    /\ results = <<>>
    /\ errors = <<>>
    /\ done_count = 0
    /\ progress = <<0, 1>>
    /\ view = "none"
    /\ downloads = <<>>
    /\ zip_arg \in SeqsUpTo(PathNames \X ZipData, 2)
    /\ zipped = <<>>

CallMakeZip ==
    /\ pc = "zip_call"
    /\ zipped' = make_zip_in_memory(zip_arg)
    /\ pc' = "zip_return"
    /\ UNCHANGED <<workers, uploaded, total_files, future_to_name, fut, yielded,
                   results, errors, done_count, progress, view, downloads, zip_arg>>

ZipSpec == ZipInit /\ [][CallMakeZip]_vars

-----------------------------------------------------------------------------
(* Properties *)

LoopEnded == pc \in {"summary", "done"}

Returned(i) == fut[i].state = "FINISHED" /\ ~fut[i].outcome.raised
Raised(i) == fut[i].state = "FINISHED" /\ fut[i].outcome.raised

Count(s, nm) == Cardinality({k \in 1..Len(s) : s[k][1] = nm})

\* C1: when the as_completed loop has ended every uploaded file is accounted
\* for exactly once: per file name, results holds as many tuples as files of
\* that name whose task returned, errors holds as many (name, message)
\* entries as files of that name whose task raised, and
\* len(results) + len(errors) = total_files.
C1_EveryFileAccountedOnce ==
    LoopEnded =>
        /\ Len(results) + Len(errors) = total_files
        /\ total_files = Len(uploaded)
        /\ \A nm \in UploadNames :
            /\ Count(results, nm) =
                  Cardinality({i \in 1..Len(uploaded) : uploaded[i].name = nm /\ Returned(i)})
            /\ Count(errors, nm) =
                  Cardinality({i \in 1..Len(uploaded) : uploaded[i].name = nm /\ Raised(i)})
        /\ \A e \in Range(errors) : e[2] = "read failed"

C1_Witness ==
    /\ LoopEnded
    /\ total_files = 3
    /\ Len(results) = 2
    /\ Len(errors) = 1
    /\ uploaded[1].name = NameA /\ uploaded[2].name = NameB
    /\ Raised(2)
    /\ errors[1][1] = NameB

\* C2: workers is always in 1..16 and at most workers tasks run at the same
\* time, however many files were uploaded.
C2_BoundedPool ==
    /\ workers \in 1..16
    /\ Cardinality(Running) <= workers

C2_Witness ==
    /\ workers < total_files
    /\ Cardinality(Running) = workers
    /\ Pending # {}

\* C3: done_count starts at 0, grows by exactly 1 per completed task, equals
\* len(results) + len(errors) and the number of futures yielded, never
\* exceeds total_files; the displayed fraction is non-decreasing, in (0, 1]
\* once set and exactly 1 when the loop has ended.
C3_CounterInv ==
    pc \in {"collect", "summary", "done"} =>
        /\ done_count = Len(results) + Len(errors)
        /\ done_count = Cardinality(yielded)
        /\ done_count <= total_files
        /\ yielded = {} => done_count = 0
        /\ done_count > 0 =>
            /\ progress = <<done_count, total_files>>
            /\ 0 < progress[1] /\ progress[1] <= progress[2]
        /\ LoopEnded => progress[1] = progress[2]

C3_CounterStep ==
    /\ progress'[1] * progress[2] >= progress[1] * progress'[2]
    /\ (pc = "collect" /\ (yielded' # yielded \/ done_count' # done_count)) =>
        /\ done_count' = done_count + 1
        /\ Cardinality(yielded') = Cardinality(yielded) + 1

SourceText(pdf) == IF pdf.kind = "text" THEN pdf.txt ELSE <<>>

\* C4: when the library raises for a file's bytes, extract_text_pdfminer
\* returns "" instead of raising, process_single_file returns
\* (filename, "failed", empty bytes), and the file lands in results with
\* status "failed" and not in errors.
C4_ExtractionFailureIsFailedResult ==
    \A i \in 1..Len(uploaded) :
        uploaded[i].pdf.kind = "corrupt" =>
            /\ fut[i].state = "FINISHED" =>
                  fut[i].outcome = Return(<<uploaded[i].name, "failed", <<>> >>)
            /\ i \in yielded =>
                /\ <<uploaded[i].name, <<>>, "failed">> \in Range(results)
                /\ \A e \in Range(errors) : e[1] # uploaded[i].name

C4_Witness ==
    /\ LoopEnded
    /\ Len(uploaded) = 2
    /\ uploaded[1].pdf.kind = "corrupt"
    /\ uploaded[2].pdf.kind = "unreadable"
    /\ 1 \in yielded
    /\ Len(errors) = 1

\* the characterisation of os.path.splitext(p) = (base, ext): ext is empty or
\* starts at the last dot of the last path component, and that dot follows a
\* character of the component that is not a dot
IsExtDot(p, d) ==
    /\ p[d] = "."
    /\ \A k \in (d + 1)..Len(p) : p[k] \notin {".", "/"}
    /\ \E k \in 1..(d - 1) :
        /\ p[k] \notin {".", "/"}
        /\ \A j \in k..d : p[j] # "/"

IsSplit(p, base, ext) ==
    /\ base \o ext = p
    /\ IF ext = <<>>
       THEN \A d \in 1..Len(p) : ~IsExtDot(p, d)
       ELSE IsExtDot(p, Len(base) + 1)

\* C5: make_zip_in_memory on N (name, bytes) pairs yields N entries, the i-th
\* named by the i-th original name with its extension replaced by .txt and
\* holding the i-th pair's bytes unchanged, also when names are equal or
\* differ only in their extension.
C5_ZipEntries ==
    pc = "zip_return" =>
        /\ Len(zipped) = Len(zip_arg)
        /\ \A i \in 1..Len(zip_arg) :
            LET nm == zipped[i].name
                n == Len(nm)
            IN /\ zipped[i].data = zip_arg[i][2]
               /\ n >= 2
               /\ SubSeq(nm, n - 1, n) = DotTxt
               /\ \E k \in 0..Len(zip_arg[i][1]) :
                    /\ SubSeq(nm, 1, n - 2) = SubSeq(zip_arg[i][1], 1, k)
                    /\ IsSplit(zip_arg[i][1], SubSeq(zip_arg[i][1], 1, k),
                               SubSeq(zip_arg[i][1], k + 1, Len(zip_arg[i][1])))

C5_Witness ==
    /\ pc = "zip_return"
    /\ Len(zip_arg) = 2
    /\ zip_arg[1][1] = <<"a", ".", "a">>
    /\ zip_arg[2][1] = <<"a", ".">>
    /\ zip_arg[1][2] # zip_arg[2][2]
    /\ Len(zipped) = 2
    /\ zipped[1].name = zipped[2].name

RECURSIVE ExpectedResults(_)
ExpectedResults(files) ==
    IF files = <<>> THEN EmptyBag
    ELSE LET o == process_single_file(Head(files))
         IN IF o.raised THEN ExpectedResults(Tail(files))
            ELSE ExpectedResults(Tail(files))
                 (+) SetToBag({<<o.val[1], o.val[3], o.val[2]>>})

RECURSIVE ExpectedErrors(_)
ExpectedErrors(files) ==
    IF files = <<>> THEN EmptyBag
    ELSE LET o == process_single_file(Head(files))
         IN IF o.raised
            THEN ExpectedErrors(Tail(files)) (+) SetToBag({<<Head(files).name, o.exc>>})
            ELSE ExpectedErrors(Tail(files))

\* C6: the entries in results and errors depend on the uploaded files alone:
\* whatever the worker count and the interleaving, when the loop has ended
\* results and errors hold, as multisets, what process_single_file gives for
\* each file on its own; only the order may differ.
C6_TasksIndependent ==
    LoopEnded =>
        /\ BagOfSeq(results) = ExpectedResults(uploaded)
        /\ BagOfSeq(errors) = ExpectedErrors(uploaded)

C6_Witness ==
    /\ LoopEnded
    /\ workers < total_files
    /\ total_files = 3
    /\ uploaded[1].name = NameA /\ uploaded[2].name = NameB /\ uploaded[3].name = NameB
    /\ Len(results) = 2
    /\ results[1][1] = NameB
    /\ results[2][1] = NameA
    /\ Len(errors) = 1

\* C7 as claimed: in results, method is "failed" exactly when text_bytes is
\* empty and "pdfminer" exactly when text_bytes is non-empty.
C7_LabelMatchesEmptiness ==
    \A r \in Range(results) :
        /\ r[3] = "failed" <=> r[2] = <<>>
        /\ r[3] = "pdfminer" <=> r[2] # <<>>

FileNamed(nm) == CHOOSE i \in 1..Len(uploaded) : uploaded[i].name = nm

\* C7 as amended: in results, method is "failed" exactly when the extracted
\* text has no character other than whitespace (it is empty or
\* whitespace-only) and "pdfminer" otherwise; text_bytes is the UTF-8
\* encoding of the text without its unencodable characters, so a "failed"
\* result carries only whitespace bytes, possibly some.
C7_LabelMatchesStrippedText ==
    \A r \in Range(results) :
        LET txt == SourceText(uploaded[FileNamed(r[1])].pdf)
        IN /\ r[3] = "failed" <=> \A c \in Range(txt) : isspace(c)
           /\ r[3] = "pdfminer" <=> \E c \in Range(txt) : ~isspace(c)
           /\ r[2] = encode_utf8_ignore(txt)
           /\ r[3] = "failed" => \A b \in Range(r[2]) : b \in {32, 194, 160}

C7_Witness ==
    \E r \in Range(results) :
        /\ r[3] = "failed"
        /\ r[2] = <<32>>
        /\ uploaded[FileNamed(r[1])].pdf = Digital(<<"sp">>)

SingleViews == {"single_preview", "single_direct"}

\* C8: the single-file view is shown exactly when a single file was
\* uploaded and the bulk view exactly when more than one file was uploaded,
\* whatever the outcome of the tasks.
C8_ViewByUploadCount ==
    pc = "done" =>
        /\ view \in SingleViews <=> total_files = 1
        /\ view = "bulk" <=> total_files > 1

\* C9: under fair scheduling processing always finishes: once files are
\* submitted the loop eventually exits with done_count = total_files and
\* every submitted future yielded, and the view is reached; only submitted
\* futures are ever yielded.
C9_ProcessingFinishes ==
    /\ (pc = "submit") ~>
          (pc = "done" /\ done_count = total_files /\ yielded = 1..total_files
             /\ Pending = {} /\ Running = {})
    /\ [](yielded \subseteq Futures)

C9_Witness ==
    /\ pc = "done"
    /\ workers < total_files
    /\ total_files = 3
    /\ done_count = 3
    /\ Len(errors) = 1

\* C10: in the bulk view the widget keys "dl_" + filename are pairwise
\* distinct and the output names (base name + ".txt") of the ZIP entries and
\* of the individual downloads are pairwise distinct.
C10_DistinctKeysAndNames ==
    view = "bulk" =>
        /\ \A j, k \in 1..Len(downloads) :
            j # k => /\ downloads[j].key # downloads[k].key
                     /\ downloads[j].file_name # downloads[k].file_name
        /\ \A j, k \in 1..Len(zipped) : j # k => zipped[j].name # zipped[k].name

====
